---- MODULE Spec2Model ----
(***************************************************************************)
(* Model of the fiscal calculator: calc.py (the two table loaders and the  *)
(* two delta aggregators) and app.py (the Streamlit script that calls      *)
(* them).                                                                  *)
(*                                                                         *)
(* The aggregators compute in Python floats (IEEE-754 binary64).  The      *)
(* arithmetic is modelled bit-exactly: a float is a sign, a 53-bit         *)
(* significand and a binary exponent, and *, + and round(x, 2) round the   *)
(* way CPython does.  Significands and their products do not fit TLC's     *)
(* 32-bit integers, so natural numbers are little-endian sequences of      *)
(* 15-bit limbs.  All inputs are finite and far from the exponent limits,  *)
(* so overflow, subnormals, infinities and NaN do not arise.               *)
(***************************************************************************)
EXTENDS Integers, Sequences, FiniteSets, TLC

(***************************************************************************)
(* Natural numbers of arbitrary size: <<l1, l2, ...>> is                   *)
(* l1 + l2*Base + l3*Base^2 + ..., with no leading (last) zero limb.       *)
(***************************************************************************)
Base == 2^15

RECURSIVE Trim(_)
Trim(a) ==
  IF a = <<>> THEN a
  ELSE IF a[Len(a)] = 0 THEN Trim(SubSeq(a, 1, Len(a) - 1))
  ELSE a

RECURSIVE NFromInt(_)
NFromInt(n) == IF n = 0 THEN <<>> ELSE <<n % Base>> \o NFromInt(n \div Base)

RECURSIVE NToInt(_)
NToInt(a) == IF a = <<>> THEN 0 ELSE Head(a) + Base * NToInt(Tail(a))

RECURSIVE NAddC(_, _, _)
NAddC(a, b, c) ==
  IF a = <<>> /\ b = <<>> THEN (IF c = 0 THEN <<>> ELSE <<c>>)
  ELSE LET x == (IF a = <<>> THEN 0 ELSE Head(a))
                + (IF b = <<>> THEN 0 ELSE Head(b)) + c
       IN  <<x % Base>> \o NAddC(IF a = <<>> THEN a ELSE Tail(a),
                                 IF b = <<>> THEN b ELSE Tail(b),
                                 x \div Base)

NAdd(a, b) == NAddC(a, b, 0)

\* a - b for a >= b; c is the borrow
RECURSIVE NSubC(_, _, _)
NSubC(a, b, c) ==
  IF a = <<>> THEN <<>>
  ELSE LET x == Head(a) - (IF b = <<>> THEN 0 ELSE Head(b)) - c
       IN  <<x % Base>> \o NSubC(Tail(a),
                                 IF b = <<>> THEN b ELSE Tail(b),
                                 IF x < 0 THEN 1 ELSE 0)

NSub(a, b) == Trim(NSubC(a, b, 0))

\* -1, 0 or 1 as a < b, a = b or a > b, comparing limb i and below
RECURSIVE NCmpAt(_, _, _)
NCmpAt(a, b, i) ==
  IF i = 0 THEN 0
  ELSE IF a[i] < b[i] THEN -1
  ELSE IF a[i] > b[i] THEN 1
  ELSE NCmpAt(a, b, i - 1)

NCmp(a, b) ==
  IF Len(a) < Len(b) THEN -1
  ELSE IF Len(a) > Len(b) THEN 1
  ELSE NCmpAt(a, b, Len(a))

\* a * k + c for 0 <= k < Base
RECURSIVE NMulSmallC(_, _, _)
NMulSmallC(a, k, c) ==
  IF a = <<>> THEN (IF c = 0 THEN <<>> ELSE <<c>>)
  ELSE LET x == Head(a) * k + c
       IN  <<x % Base>> \o NMulSmallC(Tail(a), k, x \div Base)

NMulSmall(a, k) == Trim(NMulSmallC(a, k, 0))

RECURSIVE NMul(_, _)
NMul(a, b) ==
  IF a = <<>> \/ b = <<>> THEN <<>>
  ELSE NAdd(NMulSmall(a, Head(b)),
            LET r == NMul(a, Tail(b)) IN IF r = <<>> THEN r ELSE <<0>> \o r)

\* quotient and remainder of a by k, for 0 < k <= Base
RECURSIVE NDivRem(_, _)
NDivRem(a, k) ==
  IF a = <<>> THEN [q |-> <<>>, r |-> 0]
  ELSE LET t == NDivRem(Tail(a), k)
           x == t.r * Base + Head(a)
       IN  [q |-> <<x \div k>> \o t.q, r |-> x % k]

NDivSmall(a, k) == Trim(NDivRem(a, k).q)

Zeros(n) == [i \in 1..n |-> 0]

\* a * 2^n
NShl(a, n) ==
  IF a = <<>> THEN a
  ELSE Zeros(n \div 15) \o NMulSmall(a, 2^(n % 15))

\* floor(a / 2^n)
NShr(a, n) ==
  IF n \div 15 >= Len(a) THEN <<>>
  ELSE NDivSmall(SubSeq(a, (n \div 15) + 1, Len(a)), 2^(n % 15))

RECURSIVE BitLenInt(_)
BitLenInt(n) == IF n = 0 THEN 0 ELSE 1 + BitLenInt(n \div 2)

NBitLen(a) ==
  IF a = <<>> THEN 0 ELSE 15 * (Len(a) - 1) + BitLenInt(a[Len(a)])

NIsOdd(a) == a # <<>> /\ Head(a) % 2 = 1

\* a / 2^n rounded to the nearest natural, ties to even (n >= 1)
NRoundShr(a, n) ==
  LET q    == NShr(a, n)
      rem  == NSub(a, NShl(q, n))
      half == NShl(<<1>>, n - 1)
      c    == NCmp(rem, half)
  IN  IF c > 0 \/ (c = 0 /\ NIsOdd(q)) THEN NAdd(q, <<1>>) ELSE q

(***************************************************************************)
(* Python floats.  [neg, m, e] is (-1)^neg * m * 2^e; m is zero (<<>>) or  *)
(* has exactly MantBits bits, so equal values are equal records.           *)
(***************************************************************************)
MantBits == 53

FZero == [neg |-> FALSE, m |-> <<>>, e |-> 0]

\* the float nearest to (-1)^neg * M * 2^E, ties to even
FRound(neg, M, E) ==
  LET bl == NBitLen(M)
  IN  IF M = <<>> THEN [neg |-> neg, m |-> <<>>, e |-> 0]
      ELSE IF bl <= MantBits
        THEN [neg |-> neg, m |-> NShl(M, MantBits - bl), e |-> E - (MantBits - bl)]
      ELSE LET sh == bl - MantBits
               q  == NRoundShr(M, sh)
           IN  IF NBitLen(q) > MantBits
                 THEN [neg |-> neg, m |-> NShr(q, 1), e |-> E + sh + 1]
                 ELSE [neg |-> neg, m |-> q, e |-> E + sh]

Pow10(k) == 10^k

\* A decimal literal: [neg, digits, scale] is (-1)^neg * digits / 10^scale.
Dec(n, k) == [neg |-> n < 0, digits |-> IF n < 0 THEN -n ELSE n, scale |-> k]

DecValue(d) == IF d.neg THEN -d.digits ELSE d.digits

\* float("<decimal>"), and int / 100: the float nearest to the decimal.
\* The quotient is taken with two extra bits and a sticky bit for a
\* non-zero remainder, then rounded once.
FromDecimal(d) ==
  IF d.digits = 0 THEN [neg |-> d.neg, m |-> <<>>, e |-> 0]
  ELSE LET T  == Pow10(d.scale)
           s  == MantBits + BitLenInt(T) - BitLenInt(d.digits) + 2
           dr == NDivRem(NShl(NFromInt(d.digits), s), T)
           M  == NAdd(NShl(Trim(dr.q), 1), IF dr.r = 0 THEN <<>> ELSE <<1>>)
       IN  FRound(d.neg, M, -s - 1)

FromInt(n) == FromDecimal(Dec(n, 0))

\* x * y
FMul(x, y) ==
  FRound(x.neg # y.neg, NMul(x.m, y.m), x.e + y.e)

\* x + y
FAdd(x, y) ==
  IF x.m = <<>> /\ y.m = <<>> THEN [neg |-> x.neg /\ y.neg, m |-> <<>>, e |-> 0]
  ELSE IF x.m = <<>> THEN y
  ELSE IF y.m = <<>> THEN x
  ELSE LET e  == IF x.e < y.e THEN x.e ELSE y.e
           Mx == NShl(x.m, x.e - e)
           My == NShl(y.m, y.e - e)
           c  == NCmp(Mx, My)
       IN  IF x.neg = y.neg THEN FRound(x.neg, NAdd(Mx, My), e)
           ELSE IF c = 0 THEN FZero
           ELSE IF c > 0 THEN FRound(x.neg, NSub(Mx, My), e)
           ELSE FRound(y.neg, NSub(My, Mx), e)

\* round(x, 2) in hundredths: the exact value of x times 100, rounded to the
\* nearest integer, ties to even (CPython rounds the exact binary value).
RoundHundredths(x) ==
  LET H == NMulSmall(x.m, 100)
      n == IF x.e >= 0 THEN NShl(H, x.e) ELSE NRoundShr(H, -x.e)
  IN  [neg |-> x.neg, digits |-> NToInt(n), scale |-> 2]

\* round(x, 2): the float nearest to that two-decimal number
PyRound2(x) == FromDecimal(RoundHundredths(x))

\* -x
FNeg(x) == [neg |-> ~x.neg, m |-> x.m, e |-> x.e]

\* x == y in Python: -0.0 equals 0.0
FEq(x, y) == x.m = y.m /\ x.e = y.e /\ (x.neg = y.neg \/ x.m = <<>>)

(***************************************************************************)
(* Bounded inputs.  A file cell and a mapping value are written as decimal *)
(* literals; the program holds them as the floats nearest to them.         *)
(***************************************************************************)
MaxRows == 3

NoError == "no error"

\* a path at which there is no file
NoFile == [exists |-> FALSE, columns |-> {}, rows |-> <<>>]

NoTable == [columns |-> {}, rows |-> <<>>]

\* no load_*_table call has been made yet
NotLoaded == [raised |-> "not called", missing |-> {}, what |-> "", df |-> NoTable]

\* nothing returned yet, nothing shown
NoValue == [given |-> FALSE, raised |-> NoError, value |-> FZero]

EmptyDict == [k \in {} |-> 0]

\* Rows a tax file may hold, in file order.
TaxCatalogue ==
  << [name |-> "VAT", baseline |-> Dec(5, 0),  delta_per_unit |-> Dec(5, 1)],
     [name |-> "VAT", baseline |-> Dec(20, 0), delta_per_unit |-> Dec(85, 1)],
     [name |-> "CT",  baseline |-> Dec(25, 0), delta_per_unit |-> Dec(36, 1)],
     [name |-> "IT",  baseline |-> Dec(20, 0), delta_per_unit |-> Dec(45, 3)] >>

\* Rows a spend file may hold, in file order.
SpendCatalogue ==
  << [name |-> "NHS",     baseline |-> Dec(5, 1)],
     [name |-> "NHS",     baseline |-> Dec(192, 0)],
     [name |-> "Defence", baseline |-> Dec(57, 0)],
     [name |-> "Roads",   baseline |-> Dec(7225, 2)] >>

TaxNames == {TaxCatalogue[i].name : i \in DOMAIN TaxCatalogue}
SpendNames == {SpendCatalogue[i].name : i \in DOMAIN SpendCatalogue}

\* the rows of cat whose index is in S, in order
RECURSIVE PickRows(_, _, _)
PickRows(cat, S, i) ==
  IF i > Len(cat) THEN <<>>
  ELSE (IF i \in S THEN <<cat[i]>> ELSE <<>>) \o PickRows(cat, S, i + 1)

TablesOf(cat) ==
  {PickRows(cat, S, 1) : S \in {T \in SUBSET DOMAIN cat : Cardinality(T) <= MaxRows}}

\* the tables of test_calc.py
ExampleTaxRows == PickRows(TaxCatalogue, {2, 3}, 1)
ExampleSpendRows == PickRows(SpendCatalogue, {2, 3}, 1)

OptionalColumns == {"step"}
TaxDroppable == {"unit", "min_change"}
SpendDroppable == {"min_pct", "max_pct"}

\* unit changes a tax mapping may hold, and proportions a spend mapping may hold
TaxChanges == {Dec(-1, 0), Dec(0, 0), Dec(2, 0)}
SpendChanges == {Dec(-20, 2), Dec(0, 2), Dec(10, 2)}

MapsOf(names, values) == UNION {[K -> values] : K \in SUBSET names}

(***************************************************************************)
(* calc.py                                                                 *)
(***************************************************************************)
BASELINE_DEFICIT == 137

TaxNeeded == {"name", "unit", "baseline", "delta_per_unit", "min_change", "max_change"}
SpendNeeded == {"name", "baseline", "min_pct", "max_pct"}

\* read_csv followed by a drop of the rows whose name an earlier row has
\* (what a loader enforcing unique names by dropping would return)
read_csv_unique(file) ==
  LET keep == {i \in DOMAIN file.rows :
                 \A j \in 1..(i - 1) : file.rows[j].name # file.rows[i].name}
      RECURSIVE Pick(_)
      Pick(i) ==
        IF i > Len(file.rows) THEN <<>>
        ELSE (IF i \in keep
                THEN <<[c \in DOMAIN file.rows[i] |->
                          IF c = "name" THEN file.rows[i][c]
                          ELSE FromDecimal(file.rows[i][c])]>>
                ELSE <<>>) \o Pick(i + 1)
  IN  [columns |-> file.columns, rows |-> Pick(1)]

\* pd.read_csv(path): the columns, and each row with its numeric cells as floats
read_csv(file) ==
  [columns |-> file.columns,
   rows    |-> [i \in DOMAIN file.rows |->
                  [c \in DOMAIN file.rows[i] |->
                     IF c = "name" THEN file.rows[i][c]
                     ELSE FromDecimal(file.rows[i][c])]]]

\* What a loader call ends with: a raised exception or the returned table.
load_table(file, needed, what) ==
  IF ~file.exists
    THEN [raised |-> "FileNotFoundError", missing |-> {}, what |-> what, df |-> NoTable]
  ELSE IF ~(needed \subseteq file.columns)
    THEN [raised |-> "ValueError", missing |-> needed \ file.columns,
          what |-> what, df |-> NoTable]
  ELSE [raised |-> NoError, missing |-> {}, what |-> what, df |-> read_csv(file)]

\* load_tax_table checking the spend schema (a copy-and-paste slip)
load_tax_table_spend_schema(file) ==
  load_table(file, SpendNeeded, "tax CSV missing columns")

load_tax_table(file) == load_table(file, TaxNeeded, "tax CSV missing columns")

load_spend_table(file) == load_table(file, SpendNeeded, "spend CSV missing columns")

\* change_dict[key]: a lookup that raises KeyError for an absent key
DictIndex(d, key, default) ==
  IF key \in DOMAIN d THEN [raised |-> NoError, value |-> d[key]]
  ELSE [raised |-> "KeyError", value |-> default]

\* change_dict.get(key, default): what the lookup ends with ...
DictGet(d, key, default) ==
  [raised |-> NoError, value |-> IF key \in DOMAIN d THEN d[key] ELSE default]

\* the mapping after change_dict.setdefault(key, default), which inserts
DictAfterSetdefault(d, key, default) ==
  [k \in DOMAIN d \cup {key} |-> IF k \in DOMAIN d THEN d[k] ELSE default]

\* ... and the mapping afterwards: get() inserts nothing
DictAfterGet(d, key, default) == d

\* delta = 0.0
DeltaInit == FZero

\* the default of change_dict.get(row["name"], 0)
GetDefault == Dec(0, 0)

\* (1 + change) * row[col]: the new level instead of the change
TermNewLevel(change, row, col) ==
  FMul(FAdd(FromInt(1), FromDecimal(change)), row[col])

\* One pass of an aggregator's loop body: change * row[col]
Term(change, row, col) == FMul(FromDecimal(change), row[col])

\* The loop of an aggregator from row i on: the accumulated delta, the
\* mapping as the lookups leave it, and the exception that ended it, if any.
RECURSIVE AggLoop(_, _, _, _, _)
AggLoop(rows, col, i, delta, d) ==
  IF i > Len(rows) THEN [raised |-> NoError, delta |-> delta, dict |-> d]
  ELSE LET got == DictGet(d, rows[i].name, GetDefault)
           d2  == DictAfterGet(d, rows[i].name, GetDefault)
       IN  IF got.raised # NoError
             THEN [raised |-> got.raised, delta |-> delta, dict |-> d2]
             ELSE AggLoop(rows, col, i + 1,
                          FAdd(delta, Term(got.value, rows[i], col)), d2)

\* What an aggregator call ends with: the value returned (or the exception
\* raised), and the caller's mapping and table afterwards (iterrows() yields
\* copies of the rows and the body only reads them).
Aggregate(df, col, change_dict) ==
  LET loop == AggLoop(df.rows, col, 1, DeltaInit, change_dict)
  IN  [raised |-> loop.raised,
       value  |-> IF loop.raised = NoError THEN PyRound2(loop.delta) ELSE FZero,
       dict   |-> loop.dict,
       df     |-> df]

\* compute_tax_delta reading the table's other numeric column
compute_tax_delta_baseline(df, change_dict) == Aggregate(df, "baseline", change_dict)

compute_tax_delta(df, change_dict) == Aggregate(df, "delta_per_unit", change_dict)

\* compute_spend_delta returning delta without round(delta, 2)
compute_spend_delta_unrounded(df, change_dict) ==
  LET loop == AggLoop(df.rows, "baseline", 1, DeltaInit, change_dict)
  IN  [raised |-> loop.raised, value |-> loop.delta, dict |-> loop.dict, df |-> df]

compute_spend_delta(df, change_dict) == Aggregate(df, "baseline", change_dict)

(***************************************************************************)
(* app.py                                                                  *)
(***************************************************************************)
\* Line 168, `with col2:`, is followed by a statement at its own indentation:
\* Python rejects the file with an IndentationError before running any of it.
ScriptCompiles == FALSE

\* A page: the error shown, whether the run was halted, the sliders drawn,
\* st.session_state, the aggregator calls made and the surplus metric shown.
Page(error) ==
  [error |-> error, stopped |-> TRUE, sliders |-> {}, session_state |-> EmptyDict,
   agg_calls |-> 0, surplus |-> NoValue]

NotRun == [Page("not run") EXCEPT !.stopped = FALSE]

\* The script's statements in order, up to the first that ends the run.
RunScript(tfile, sfile) ==
  LET t == load_tax_table(tfile)
      s == IF t.raised = NoError THEN load_spend_table(sfile) ELSE t
  IN  IF t.raised = "FileNotFoundError" \/ s.raised = "FileNotFoundError"
        \* lines 39-41: st.error(...), st.stop()
        THEN Page("Missing CSV file")
      ELSE IF t.raised = "ValueError" \/ s.raised = "ValueError"
        \* the except clause does not catch it
        THEN Page("ValueError")
      \* line 132: `tabs` is bound nowhere (line 129 binds tax_tab, spend_tab,
      \* results_tab), so the run ends before any slider or metric
      ELSE Page("NameError")

\* One run of the script by Streamlit: the page it leaves.
RunApp(tfile, sfile) ==
  IF ScriptCompiles THEN RunScript(tfile, sfile) ELSE Page("IndentationError")

(***************************************************************************)
(* State                                                                   *)
(***************************************************************************)
VARIABLES
  tax_file,     \* baseline_tax.csv: NoFile, or its columns and rows
  spend_file,   \* baseline_spend.csv
  tax_load,     \* the last load_tax_table call's outcome, or NotLoaded
  spend_load,   \* the last load_spend_table call's outcome, or NotLoaded
  deficit,      \* the module attribute calc.BASELINE_DEFICIT
  fn,           \* the aggregator of the current call: "none", "tax" or "spend"
  change_dict,  \* the mapping passed to it
  result,       \* what it returned, NoValue while it has not
  app           \* the page the last run of app.py left

vars == <<tax_file, spend_file, tax_load, spend_load, deficit, fn, change_dict,
          result, app>>

ColumnSets(needed, droppable) ==
  {(needed \ drop) \cup extra : drop \in SUBSET droppable, extra \in SUBSET OptionalColumns}

TaxFiles ==
  {[exists |-> TRUE, columns |-> TaxNeeded, rows |-> t] : t \in TablesOf(TaxCatalogue)}
  \cup {[exists |-> TRUE, columns |-> c, rows |-> ExampleTaxRows] :
          c \in ColumnSets(TaxNeeded, TaxDroppable)}

SpendFiles ==
  {[exists |-> TRUE, columns |-> SpendNeeded, rows |-> t] : t \in TablesOf(SpendCatalogue)}
  \cup {[exists |-> TRUE, columns |-> c, rows |-> ExampleSpendRows] :
          c \in ColumnSets(SpendNeeded, SpendDroppable)}

ExampleTaxFile == [exists |-> TRUE, columns |-> TaxNeeded, rows |-> ExampleTaxRows]
ExampleSpendFile == [exists |-> TRUE, columns |-> SpendNeeded, rows |-> ExampleSpendRows]

\* The two files of a behaviour: both example files, or any of the files
\* above at one path and no file at the other.
FilePairs ==
  {<<ExampleTaxFile, ExampleSpendFile>>}
  \cup (TaxFiles \X {NoFile})
  \cup ({NoFile} \X SpendFiles)

Init ==
  /\ \E pair \in FilePairs :
       /\ tax_file = pair[1]
       /\ spend_file = pair[2]
  /\ tax_load = NotLoaded
  /\ spend_load = NotLoaded
  /\ deficit = BASELINE_DEFICIT
  /\ fn = "none"
  /\ change_dict = EmptyDict
  /\ result = NoValue
  /\ app = NotRun

Loaded(load) == load.raised = NoError

Called(load) == load.raised # "not called"

\* A process is either a caller of calc.py (a test, a notebook) or a run of
\* app.py by Streamlit.  A caller loads the two tables, then calls the
\* aggregators; it loads each table once.
LoadTax ==
  /\ app = NotRun
  /\ ~Called(tax_load)
  /\ tax_load' = load_tax_table(tax_file)
  /\ UNCHANGED <<tax_file, spend_file, spend_load, deficit, fn, change_dict, result, app>>

LoadSpend ==
  /\ app = NotRun
  /\ ~Called(spend_load)
  /\ spend_load' = load_spend_table(spend_file)
  /\ UNCHANGED <<tax_file, spend_file, tax_load, deficit, fn, change_dict, result, app>>

\* The mappings a caller may pass next: a fresh one, or after a call has
\* returned the mapping it still holds.
NextMaps(names, values) ==
  IF fn = "none" THEN MapsOf(names, values)
  ELSE IF DOMAIN change_dict \subseteq names THEN {change_dict}
  ELSE {}

\* A caller calls compute_tax_delta with the loaded table and a mapping.
CallTax ==
  /\ Loaded(tax_load) /\ Called(spend_load)
  /\ fn = "none" \/ result.given
  /\ \E ch \in NextMaps(TaxNames, TaxChanges) :
       /\ fn' = "tax"
       /\ change_dict' = ch
       /\ result' = NoValue
  /\ UNCHANGED <<tax_file, spend_file, tax_load, spend_load, deficit, app>>

CallSpend ==
  /\ Loaded(spend_load) /\ Called(tax_load)
  /\ fn = "none" \/ result.given
  /\ \E ch \in NextMaps(SpendNames, SpendChanges) :
       /\ fn' = "spend"
       /\ change_dict' = ch
       /\ result' = NoValue
  /\ UNCHANGED <<tax_file, spend_file, tax_load, spend_load, deficit, app>>

\* The caller drops the mapping and the result (the mapping is transient).
Drop ==
  /\ fn # "none"
  /\ result.given
  /\ fn' = "none"
  /\ change_dict' = EmptyDict
  /\ result' = NoValue
  /\ UNCHANGED <<tax_file, spend_file, tax_load, spend_load, deficit, app>>

\* compute_tax_delta runs and returns.
ReturnTax ==
  /\ fn = "tax"
  /\ ~result.given
  /\ LET r == compute_tax_delta(tax_load.df, change_dict)
     IN  /\ result' = [given |-> TRUE, raised |-> r.raised, value |-> r.value]
         /\ change_dict' = r.dict
         /\ tax_load' = [tax_load EXCEPT !.df = r.df]
  /\ UNCHANGED <<tax_file, spend_file, spend_load, deficit, fn, app>>

\* compute_spend_delta runs and returns.
ReturnSpend ==
  /\ fn = "spend"
  /\ ~result.given
  /\ LET r == compute_spend_delta(spend_load.df, change_dict)
     IN  /\ result' = [given |-> TRUE, raised |-> r.raised, value |-> r.value]
         /\ change_dict' = r.dict
         /\ spend_load' = [spend_load EXCEPT !.df = r.df]
  /\ UNCHANGED <<tax_file, spend_file, tax_load, deficit, fn, app>>

\* Streamlit runs app.py: on start, and again on every interaction.
AppRun ==
  /\ ~Called(tax_load) /\ ~Called(spend_load)
  /\ app' = RunApp(tax_file, spend_file)
  /\ UNCHANGED <<tax_file, spend_file, tax_load, spend_load, deficit, fn, change_dict, result>>

Next ==
  \/ LoadTax
  \/ LoadSpend
  \/ CallTax
  \/ CallSpend
  \/ ReturnTax
  \/ ReturnSpend
  \/ Drop
  \/ AppRun

Spec == Init /\ [][Next]_vars

(***************************************************************************)
(* Exact decimal arithmetic, for stating what the aggregators should       *)
(* return: [v, scale] is v / 10^scale.                                     *)
(***************************************************************************)
XOf(d) == [v |-> DecValue(d), scale |-> d.scale]

XMul(a, b) == [v |-> a.v * b.v, scale |-> a.scale + b.scale]

XAdd(a, b) ==
  LET k == IF a.scale > b.scale THEN a.scale ELSE b.scale
  IN  [v |-> a.v * Pow10(k - a.scale) + b.v * Pow10(k - b.scale), scale |-> k]

Abs(n) == IF n < 0 THEN -n ELSE n

\* the change a mapping holds for a name, 0 when it holds none
ChangeOf(d, name) == IF name \in DOMAIN d THEN d[name] ELSE Dec(0, 0)

\* the exact sum over rows i.. of change * cell
RECURSIVE ExactSum(_, _, _, _)
ExactSum(rows, col, d, i) ==
  IF i > Len(rows) THEN [v |-> 0, scale |-> 0]
  ELSE XAdd(XMul(XOf(ChangeOf(d, rows[i].name)), XOf(rows[i][col])),
            ExactSum(rows, col, d, i + 1))

\* the numbers of hundredths that are x rounded to 2 decimal places: the
\* nearest one, or both neighbours when x lies exactly midway
Roundings2(x) ==
  LET k  == IF x.scale < 2 THEN 2 ELSE x.scale
      X  == x.v * Pow10(k - x.scale)
      u  == Pow10(k - 2)
      lo == X \div u
  IN  {n \in {lo, lo + 1} : 2 * Abs(X - n * u) <= u}

\* r is the float of x rounded to 2 decimal places
IsRounded2(r, x) == \E n \in Roundings2(x) : FEq(r, FromDecimal(Dec(n, 2)))

\* the rows among rows whose name is in K, in order
RECURSIVE RowsNamed(_, _)
RowsNamed(rows, K) ==
  IF rows = <<>> THEN <<>>
  ELSE (IF Head(rows).name \in K THEN <<Head(rows)>> ELSE <<>>)
       \o RowsNamed(Tail(rows), K)

NamesOf(rows) == {rows[i].name : i \in DOMAIN rows}

AllZero(d) == \A k \in DOMAIN d : d[k].digits = 0

\* the table, the file and the column of the current call
CallDf == IF fn = "tax" THEN tax_load.df ELSE spend_load.df
CallFile == IF fn = "tax" THEN tax_file ELSE spend_file
CallCol == IF fn = "tax" THEN "delta_per_unit" ELSE "baseline"

\* the current call's aggregator applied to a table and a mapping
CallAgg(df, d) ==
  IF fn = "tax" THEN compute_tax_delta(df, d) ELSE compute_spend_delta(df, d)

Returned == fn # "none" /\ result.given

\* the mappings of test_calc.py
ExampleTaxChanges == [k \in {"VAT", "CT"} |-> IF k = "VAT" THEN Dec(2, 0) ELSE Dec(-1, 0)]
ExampleSpendChanges ==
  [k \in {"NHS", "Defence"} |-> IF k = "NHS" THEN Dec(10, 2) ELSE Dec(-20, 2)]

TaxSchema == {"name", "unit", "baseline", "delta_per_unit", "min_change", "max_change"}
SpendSchema == {"name", "baseline", "min_pct", "max_pct"}

LoaderContract(file, load, schema) ==
  (Called(load) /\ file.exists) =>
    LET absent == {c \in schema : c \notin file.columns}
    IN  /\ (load.raised = "ValueError") <=> (absent # {})
        /\ (load.raised = "ValueError") => (load.missing = absent)
        /\ (absent = {}) => (load.raised = NoError)

C3_MissingColumnsError ==
  /\ LoaderContract(tax_file, tax_load, TaxSchema)
  /\ LoaderContract(spend_file, spend_load, SpendSchema)

C3_Witness ==
  /\ tax_load.raised = "ValueError"
  /\ tax_load.missing = {"unit", "min_change"}
  /\ "step" \in tax_file.columns

(***************************************************************************)
(* C4: an aggregator that has returned raised no error, and its value is   *)
(* the value it returns for the same mapping extended with 0 for every     *)
(* name of the table the mapping omits, and the value it returns for the   *)
(* table without the rows whose names the mapping omits (an omitted lever  *)
(* contributes exactly 0).                                                 *)
(***************************************************************************)
Extended(d, names) ==
  [k \in DOMAIN d \cup names |-> IF k \in DOMAIN d THEN d[k] ELSE Dec(0, 0)]

C4_MissingNamesAreZero ==
  Returned =>
    /\ result.raised = NoError
    /\ FEq(result.value,
           CallAgg(CallDf, Extended(change_dict, NamesOf(CallDf.rows))).value)
    /\ FEq(result.value,
           CallAgg([CallDf EXCEPT !.rows = RowsNamed(CallDf.rows, DOMAIN change_dict)],
                   change_dict).value)

C4_Witness ==
  /\ Returned
  /\ \E i \in DOMAIN CallDf.rows : CallDf.rows[i].name \notin DOMAIN change_dict
  /\ \E i \in DOMAIN CallDf.rows :
       /\ CallDf.rows[i].name \in DOMAIN change_dict
       /\ change_dict[CallDf.rows[i].name].digits # 0
  /\ result.raised = NoError
  /\ result.value # FZero

(***************************************************************************)
(* C5: an aggregator called with a mapping whose values are all zero       *)
(* returns 0.0.                                                            *)
(***************************************************************************)
C5_ZeroMappingGivesZero ==
  (Returned /\ AllZero(change_dict)) =>
    /\ result.raised = NoError
    /\ result.value = FZero

C5_Witness ==
  /\ Returned /\ AllZero(change_dict)
  /\ Len(CallDf.rows) >= 2
  /\ NamesOf(CallDf.rows) \subseteq DOMAIN change_dict
  /\ result.value = FZero

(***************************************************************************)
(* C6: an aggregator returns the same value on every permutation of the    *)
(* table's rows.                                                           *)
(***************************************************************************)
RowOrders(rows) ==
  {[i \in DOMAIN rows |-> rows[p[i]]] : p \in Permutations(DOMAIN rows)}

C6_OrderIndependent ==
  Returned =>
    \A rows \in RowOrders(CallDf.rows) :
      FEq(CallAgg([CallDf EXCEPT !.rows = rows], change_dict).value, result.value)

(***************************************************************************)
(* C7: a step in which an aggregator returns leaves the tables, the files, *)
(* the mapping and BASELINE_DEFICIT unchanged, and the value returned is   *)
(* the one the aggregator gives for the call's own table and mapping in    *)
(* whatever state it is asked again, whatever calls came before.           *)
(***************************************************************************)
C7_Stateless ==
  /\ [][(~result.given /\ result'.given) =>
          /\ tax_load' = tax_load /\ spend_load' = spend_load
          /\ tax_file' = tax_file /\ spend_file' = spend_file
          /\ change_dict' = change_dict
          /\ deficit' = deficit /\ deficit = BASELINE_DEFICIT]_vars
  /\ [](Returned =>
          /\ result.raised = NoError
          /\ FEq(result.value, CallAgg(CallDf, change_dict).value))

C7_Witness ==
  /\ Returned
  /\ fn = "spend"
  /\ Loaded(tax_load)
  /\ \E i \in DOMAIN CallDf.rows : CallDf.rows[i].name \notin DOMAIN change_dict
  /\ result.value # FZero

(***************************************************************************)
(* C8 as claimed: in every table a loader returned no two rows have the    *)
(* same name.                                                              *)
(***************************************************************************)
UniqueNames(rows) ==
  \A i, j \in DOMAIN rows : i # j => rows[i].name # rows[j].name

C8_NamesUnique ==
  /\ Loaded(tax_load) => UniqueNames(tax_load.df.rows)
  /\ Loaded(spend_load) => UniqueNames(spend_load.df.rows)

(***************************************************************************)
(* C8 as amended: a loader checks no names and returns the file's rows as  *)
(* they are, one row per file row, in file order and with the file's       *)
(* names, so the names of a returned table are unique exactly when the     *)
(* file's are; and a mapping with a single entry is applied by the         *)
(* aggregator to every row that carries its name (to at most one row when  *)
(* the file's names are unique): the value is the entry times the sum of   *)
(* those rows, rounded to 2 decimal places.                                *)
(***************************************************************************)
KeepsRows(file, load) ==
  Loaded(load) =>
    /\ Len(load.df.rows) = Len(file.rows)
    /\ \A i \in DOMAIN file.rows : load.df.rows[i].name = file.rows[i].name
    /\ UniqueNames(load.df.rows) <=> UniqueNames(file.rows)

C8_LoaderKeepsEveryRow ==
  /\ KeepsRows(tax_file, tax_load)
  /\ KeepsRows(spend_file, spend_load)
  /\ (Returned /\ Cardinality(DOMAIN change_dict) = 1) =>
       /\ IsRounded2(result.value,
                     ExactSum(RowsNamed(CallFile.rows, DOMAIN change_dict),
                              CallCol, change_dict, 1))
       /\ UniqueNames(CallFile.rows) =>
            Len(RowsNamed(CallDf.rows, DOMAIN change_dict)) <= 1

C8_Witness ==
  /\ Returned /\ fn = "tax"
  /\ ~UniqueNames(tax_load.df.rows)
  /\ DOMAIN change_dict = {"VAT"}
  /\ change_dict["VAT"] = Dec(2, 0)
  /\ Len(RowsNamed(tax_load.df.rows, {"VAT"})) = 2
  /\ FEq(result.value, FromDecimal(Dec(1800, 2)))

(***************************************************************************)
(* C9: a run of the app with a baseline file missing ends with the         *)
(* missing-file error reported and the run halted, no slider drawn and no  *)
(* aggregator called.                                                      *)
(***************************************************************************)
AppRan == app.error # "not run"

SliderChanges(rows, kind, scale) ==
  [k \in NamesOf(rows) |->
     IF <<kind, k>> \in DOMAIN app.session_state
       THEN Dec(app.session_state[<<kind, k>>], scale)
       ELSE Dec(0, scale)]

ExpectedSurplus ==
  LET tdf == read_csv(tax_file)
      sdf == read_csv(spend_file)
      td  == compute_tax_delta(tdf, SliderChanges(tdf.rows, "tax", 0)).value
      sd  == compute_spend_delta(sdf, SliderChanges(sdf.rows, "spend", 2)).value
  IN  FAdd(FAdd(FNeg(FromInt(deficit)), td), FNeg(sd))

C10_SurplusShown ==
  (/\ AppRan
   /\ load_tax_table(tax_file).raised = NoError
   /\ load_spend_table(spend_file).raised = NoError) =>
    /\ app.surplus.given
    /\ FEq(app.surplus.value, ExpectedSurplus)
    /\ (app.session_state = EmptyDict => FEq(app.surplus.value, FNeg(FromInt(BASELINE_DEFICIT))))
====
